---- MODULE Spec2Model ----
(***************************************************************************)
(* Airtable MCP: the table name -> tableId resolver with its process-wide  *)
(* cache (refreshTableCache, resolveTableId), the search formula builder,  *)
(* searchOneTable and the "search" tool (single table and allTables).      *)
(*                                                                         *)
(* Strings that the code inspects character by character (table names and *)
(* table ids) are sequences of one-character strings; the empty sequence   *)
(* is the empty string.  JavaScript's undefined and "" are both falsy and  *)
(* the code only tests them for truthiness, so a failed property lookup is *)
(* modelled by the empty string.                                           *)
(*                                                                         *)
(* Every await of a remote call is a scheduling point: the call is issued  *)
(* (req.st = "sent"), the service reads its state at some moment before    *)
(* the answer is delivered, and the continuation runs in a later step.     *)
(* The await of refreshTableCache() inside resolveTableId is a scheduling  *)
(* point too (pc "lookup1", "lookup2"): the continuation that reads the    *)
(* shared tableCache is a job queued behind whatever else is ready.        *)
(***************************************************************************)
EXTENDS Integers, Sequences, FiniteSets, TLC

(* ------------------------------ bounds -------------------------------- *)

\* Number of events around the server in a behaviour of Spec: the clock
\* advances, or the remote base changes (a table is created or deleted).
MaxEvents == 1
\* Number of operations invoked on the server in a behaviour of Spec.
MaxOps == 2
\* Largest number of tables of the base in a federated search.
MaxTables == 7
\* Number of remote calls that fail (an error body or a rejection) in a
\* behaviour of SpecFed; under Spec any call may fail.
MaxFaults == 3
\* Largest number of tables of the base in a federated search under
\* SpecFedLive: a batch, a delay and a second batch.
MaxLiveTables == 4
\* Number of remote calls that fail in a behaviour of SpecFedLive.
MaxLiveFaults == 2
\* Longest query, and longest explicit field list, that buildFormulaFromFields
\* is applied to under SpecFormula.
MaxQueryLen == 3
MaxFields == 2
\* Largest number of fields of the table whose schema auto-discovery reads
\* under SpecDiscover.
MaxSchemaFields == 18

(* ------------------------- program constants -------------------------- *)

\* resolveTableId: now - tableCache.ts > 5 * 60_000
TTL == 5 * 60000
\* /^tbl[a-zA-Z0-9]{10,}$/
MIN_ID_SUFFIX == 10
\* A faulty BATCH: four tables a batch.
BATCH_Four == 3 + 1
\* search, allTables: const BATCH = 3
BATCH == 3
\* search, allTables: await sleep(300)
SLEEP_MS == 300
\* A faulty FIELD_CAP: thirteen fields are kept.
FIELD_CAP_Thirteen == 12 + 1
\* buildSearchFormula: .slice(0, 12)
FIELD_CAP == 12

(* ------------------------------ strings ------------------------------- *)

Lower == {"a","b","c","d","e","f","g","h","i","j","k","l","m",
          "n","o","p","q","r","s","t","u","v","w","x","y","z"}
Upper == {"A","B","C","D","E","F","G","H","I","J","K","L","M",
          "N","O","P","Q","R","S","T","U","V","W","X","Y","Z"}
Digits == {"0","1","2","3","4","5","6","7","8","9"}

\* The character class [a-zA-Z0-9].
Alnum == Lower \cup Upper \cup Digits

\* JavaScript truthiness of a string (or of undefined, modelled as "").
Truthy(s) == s /= <<>>

Rep(c, n) == [i \in 1..n |-> c]

TblPrefix == <<"t", "b", "l">>

\* A faulty IsTableId: the pattern /^tbl[a-zA-Z0-9]{11,}$/.
IsTableId_ElevenOrMore(s) ==
    /\ Len(s) >= Len(TblPrefix) + MIN_ID_SUFFIX + 1
    /\ SubSeq(s, 1, Len(TblPrefix)) = TblPrefix
    /\ \A i \in (Len(TblPrefix) + 1)..Len(s) : s[i] \in Alnum

\* /^tbl[a-zA-Z0-9]{10,}$/.test(s)
IsTableId(s) ==
    /\ Len(s) >= Len(TblPrefix) + MIN_ID_SUFFIX
    /\ SubSeq(s, 1, Len(TblPrefix)) = TblPrefix
    /\ \A i \in (Len(TblPrefix) + 1)..Len(s) : s[i] \in Alnum

DigitChar(k) ==
    CASE k = 0 -> "0" [] k = 1 -> "1" [] k = 2 -> "2" [] k = 3 -> "3"
      [] k = 4 -> "4" [] k = 5 -> "5" [] k = 6 -> "6" [] k = 7 -> "7"
      [] k = 8 -> "8" [] OTHER -> "9"

(* ------------------------- the remote service ------------------------- *)

\* The id the service gives the k-th table: "tbl" and ten characters.
TableIdOf(k) == TblPrefix \o Rep("A", 9) \o <<DigitChar(k)>>
\* The name of the k-th table; the tables of NamelessTables report no name.
NamelessTables == {3}
TableNameOf(k) == IF k \in NamelessTables THEN <<>> ELSE <<"N", DigitChar(k)>>

\* The field types buildSearchFormula searches.
TextTypes == {"singleLineText", "multilineText", "richText", "email", "url"}

\* Field names, as strings of characters.
FieldName == <<"N", "a", "m", "e">>
FieldCount == <<"C", "o", "u", "n", "t">>
FieldMail == <<"M", "a", "i", "l">>

SchemaFields ==
    << [name |-> FieldName,  type |-> "singleLineText"],
       [name |-> FieldCount, type |-> "number"],
       [name |-> FieldMail,  type |-> "email"] >>

\* The tables of TextlessTables have a number field and no text field.
TextlessTables == {2}

\* One entry of the "tables" array of meta/bases/{base}/tables.
RemoteTable(k) ==
    [id |-> TableIdOf(k), name |-> TableNameOf(k),
     fields |-> IF k \in TextlessTables THEN <<SchemaFields[2]>> ELSE SchemaFields]

\* The records the service lists for the table with id `id`, in its order.
RecordsOf(id) == << [id |-> <<"rec", id[Len(id)], "1">>], [id |-> <<"rec", id[Len(id)], "2">>] >>

\* The table a URL segment (a name or an id) denotes in the table list `tables`.
TablesDenoted(ref, tables) ==
    { i \in 1..Len(tables) : Truthy(ref) /\ (tables[i].id = ref \/ tables[i].name = ref) }

(* ------------------------------- state -------------------------------- *)

VARIABLES
    now,         \* Date.now()
    remote,      \* the table list of the base, as the service holds it
    env,         \* getEnv(): DEFAULT_TABLE, ALLOWED_TABLES
    tableCache,  \* let tableCache: TableCache | null
    task,        \* the running tool handlers and searchOneTable calls
    fed,         \* the search handler with allTables = true
    hist,        \* what a federated search did so far (batches, delays, order)
    budget,      \* events, operations and failing remote calls left
    built        \* a call of buildFormulaFromFields: its arguments and result

vars == <<now, remote, env, tableCache, task, fed, hist, budget, built>>

(* --------------------------- values and maps -------------------------- *)

EmptyMap == <<>>

\* obj[key] of a Record<string, string>: undefined (falsy) for a missing key.
Get(map, key) == IF key \in DOMAIN map THEN map[key] ELSE <<>>

\* obj[key] = value
Put(map, key, value) ==
    [x \in (DOMAIN map) \cup {key} |-> IF x = key THEN value ELSE map[x]]

\* let tableCache: TableCache | null = null.  Next to ts and byName the model
\* keeps, of the refresh that wrote the cache: from, the table list it
\* received; racing, the calls whose refresh was in flight when it wrote;
\* and raced, whether its own call was in flight when the refresh before it
\* wrote.
NoCache ==
    [present |-> FALSE, ts |-> 0, byName |-> EmptyMap, from |-> <<>>, racing |-> {},
     raced |-> FALSE]

\* The state of the remote call a task awaits: none, sent (the service has not
\* read its state yet), or read (the service answers from the list `snap`).
NoReq == [st |-> "none", snap |-> <<>>]
Sent == [st |-> "sent", snap |-> <<>>]

NoRes == [kind |-> "none"]
Ok(v) == [kind |-> "ok", value |-> v]
Failed(e) == [kind |-> "error", err |-> e]

\* new Error(`Table not found by name: ${tableOrId}`)
NotFound(tableOrId) == [type |-> "NotFound", name |-> tableOrId]
\* fetch rejects (network) or r.json() rejects (a body that is no JSON)
RemoteThrow == [type |-> "RemoteThrow"]
\* { type: "text", text: "Error: table is required ..." }
TableRequired == [text |-> "Error: table is required"]
\* search, single table: { hits: [], note: "No tables found in base" }
NoTablesNote == [hits |-> <<>>, note |-> "No tables found in base"]

\* What a remote call brings back: a 2xx JSON body, a JSON error body (non-2xx,
\* without "tables" or "records"), or a rejected promise.
Outcomes == {"ok", "errbody", "throw"}

OpIds == {<<"op", 1>>, <<"op", 2>>}
SubId(k) == <<"sub", k>>
SubIds == {SubId(k) : k \in 1..MaxTables}
TaskIds == OpIds \cup SubIds

\* refreshes: the refreshes resolveTableId has started in this call; fetched2:
\* the id that the table list its forced refresh (line 93) obtained gives the
\* name ("" when the list does not report the name); rres: what
\* resolveTableId returned or threw; fres: what buildSearchFormula returned or
\* threw; filter: the filterByFormula of the listing call ("" when the
\* parameter is not sent); lout: how the listing call was answered ("none"
\* while it has not been); rout: how the latest table-list call of
\* refreshTableCache was answered ("none" while none has been); res: what the
\* handler returned.
IdleTask ==
    [op |-> "none", table |-> <<>>, fields |-> <<>>, pc |-> "idle", req |-> NoReq,
     refreshes |-> 0, fetched2 |-> <<>>, rres |-> NoRes, fres |-> NoRes,
     filter |-> <<>>, lout |-> "none", rout |-> "none", res |-> NoRes]

(* ------------------------- search formula builder --------------------- *)

\* The query of every search of the model: a letter, a quote and a backslash.
Query == <<"a", "\"", "\\">>

RECURSIVE ReplaceAll(_, _, _)
\* s.replace(/c/g, by) for a one-character pattern c.
ReplaceAll(s, c, by) ==
    IF s = <<>> THEN <<>>
    ELSE (IF Head(s) = c THEN by ELSE <<Head(s)>>) \o ReplaceAll(Tail(s), c, by)

\* A faulty escapeForFormula: the two replacements in the other order.
escapeForFormula_QuotesFirst(s) ==
    ReplaceAll(ReplaceAll(s, "\"", <<"\\", "\"">>), "\\", <<"\\", "\\">>)

\* s.replace(/\\/g, "\\\\").replace(/"/g, '\\"')
escapeForFormula(s) ==
    ReplaceAll(ReplaceAll(s, "\\", <<"\\", "\\">>), "\"", <<"\\", "\"">>)

\* The pieces of the template `SEARCH("${qq}", {${n}} & "")`.
SearchOpen == <<"S", "E", "A", "R", "C", "H", "(", "\"">>
SearchMid == <<"\"", ",", " ", "{">>
SearchClose == <<"}", " ", "&", " ", "\"", "\"", ")">>
OrOpen == <<"O", "R", "(">>

\* fields.map((n) => `SEARCH("${qq}", {${n}} & "")`)
SearchPart(qq, n) == SearchOpen \o qq \o SearchMid \o n \o SearchClose

RECURSIVE Join(_, _)
\* parts.join(sep)
Join(parts, sep) ==
    IF parts = <<>> THEN <<>>
    ELSE IF Len(parts) = 1 THEN parts[1]
    ELSE parts[1] \o sep \o Join(Tail(parts), sep)

\* A faulty buildFormulaFromFields: no test of parts.length.
buildFormulaFromFields_EmptyOr(q, fields) ==
    LET qq == escapeForFormula(q)
        parts == [i \in 1..Len(fields) |-> SearchPart(qq, fields[i])]
    IN  OrOpen \o Join(parts, <<",">>) \o <<")">>

\* buildFormulaFromFields: `OR(${parts.join(",")})`, or "" (the empty
\* sequence) when there is no field.
buildFormulaFromFields(q, fields) ==
    LET qq == escapeForFormula(q)
        parts == [i \in 1..Len(fields) |-> SearchPart(qq, fields[i])]
    IN  IF Len(parts) > 0 THEN OrOpen \o Join(parts, <<",">>) \o <<")">> ELSE <<>>

RECURSIVE FilterTextFields(_)
FilterTextFields(fs) ==
    IF fs = <<>> THEN <<>>
    ELSE (IF Head(fs).type \in TextTypes THEN <<Head(fs).name>> ELSE <<>>)
         \o FilterTextFields(Tail(fs))

\* buildSearchFormula lines 127-135: the text fields of the table whose id is
\* tableId in the schema `tables` (undefined when data.tables is missing).
DiscoverFields(tableId, tables) ==
    LET found == { i \in 1..Len(tables) : tables[i].id = tableId }
        first == CHOOSE i \in found : \A j \in found : i <= j
        text  == IF found = {} THEN <<>> ELSE FilterTextFields(tables[first].fields)
    IN  SubSeq(text, 1, IF Len(text) < FIELD_CAP THEN Len(text) ELSE FIELD_CAP)

(* ------------------------------ the cache ----------------------------- *)

RECURSIVE Overlay_SeedWins(_, _)
\* A faulty Overlay: a name the map already holds keeps its identifier.
Overlay_SeedWins(map, tables) ==
    IF tables = <<>> THEN map
    ELSE Overlay_SeedWins(IF Truthy(Head(tables).name) /\ Truthy(Head(tables).id)
                             /\ Head(tables).name \notin DOMAIN map
                          THEN Put(map, Head(tables).name, Head(tables).id)
                          ELSE map,
                          Tail(tables))

RECURSIVE Overlay(_, _)
\* refreshTableCache lines 73-77: for (const t of data.tables) if (t?.name && t?.id) ...
Overlay(map, tables) ==
    IF tables = <<>> THEN map
    ELSE Overlay(IF Truthy(Head(tables).name) /\ Truthy(Head(tables).id)
                 THEN Put(map, Head(tables).name, Head(tables).id)
                 ELSE map,
                 Tail(tables))

\* A faulty RefreshedCache: the new entries are merged into the cached map.
RefreshedCache_Merge(seed, tables, t) ==
    [present |-> TRUE, ts |-> t,
     byName |-> Overlay(IF tableCache.present THEN tableCache.byName ELSE seed, tables),
     from |-> tables, racing |-> {}, raced |-> FALSE]

\* A faulty RefreshedCache: a refresh that completes while the cache is
\* fresh leaves it as it is.
RefreshedCache_FirstWins(seed, tables, t) ==
    IF tableCache.present /\ t - tableCache.ts <= TTL THEN tableCache
    ELSE [present |-> TRUE, ts |-> t, byName |-> Overlay(seed, tables), from |-> tables,
          racing |-> {}, raced |-> FALSE]

\* refreshTableCache lines 68-78 once the remote call has answered with the
\* table list `tables` (empty when the body has no "tables" array).
RefreshedCache(seed, tables, t) ==
    [present |-> TRUE, ts |-> t, byName |-> Overlay(seed, tables), from |-> tables,
     racing |-> {}, raced |-> FALSE]

\* A faulty NeedsRefresh: the TTL test is missing, a cache is refreshed only
\* when it is absent.
NeedsRefresh_AbsentOnly(c, t) == ~c.present

\* A faulty NeedsRefresh: >= where the code has >.
NeedsRefresh_AtTTL(c, t) == ~c.present \/ t - c.ts >= TTL

\* resolveTableId line 87: !tableCache || now - tableCache.ts > 5 * 60_000
NeedsRefresh(c, t) == ~c.present \/ t - c.ts > TTL

(* ---------------- the handlers, from one await to the next ------------- *)

\* airtableFetch(...): the call is issued and the task awaits it at `pc`.
IssueCall(tk, pc) == [tk EXCEPT !.pc = pc, !.req = Sent]

\* The handler returns or throws `res`.  Of a searchOneTable call of a batch
\* only the settled promise is left; of a tool call the model keeps what the
\* handler did (its table, the result of resolveTableId, the filter it sent).
Finish(tk, res) ==
    IF tk.op = "sub" THEN [IdleTask EXCEPT !.op = "sub", !.pc = "done", !.res = res]
    ELSE [tk EXCEPT !.pc = "done", !.req = NoReq, !.res = res]

\* searchOneTable lines 150-155: the listing call, with filterByFormula only
\* when the formula is truthy.
IssueList(tk, formula) == [IssueCall(tk, "list") EXCEPT !.filter = formula]

\* A faulty CatchFormula: a failed construction falls back to a search of
\* the field "Name".
CatchFormula_NameField(r) ==
    IF r.kind = "error" THEN buildFormulaFromFields(Query, <<FieldName>>) ELSE r.value

\* searchOneTable line 149: .catch(() => "") on buildSearchFormula.
CatchFormula(r) == IF r.kind = "error" THEN <<>> ELSE r.value

\* searchOneTable lines 149-155 once buildSearchFormula has returned or thrown
\* `r`: the listing call is issued with the formula, "" for an error.
FormulaBuilt(tk, r) == IssueList([tk EXCEPT !.fres = r, !.req = NoReq], CatchFormula(r))

\* A faulty AfterResolve: the comment and schema tools fall back to the name
\* they were given when resolveTableId throws.
AfterResolve_Fallback(tk, r) ==
    LET tk1 == [tk EXCEPT !.rres = r, !.req = NoReq] IN
    IF tk.op = "comments" THEN IssueCall(tk1, "path")
    ELSE IF r.kind = "ok" THEN IssueCall(tk1, "meta") ELSE FormulaBuilt(tk1, r)

\* A faulty AfterResolve: searchOneTable has no .catch on buildSearchFormula,
\* so an error of resolveTableId ends the search of the table.
AfterResolve_Abort(tk, r) ==
    LET tk1 == [tk EXCEPT !.rres = r, !.req = NoReq] IN
    IF r.kind = "error" THEN Finish(tk1, r)
    ELSE IF tk.op = "comments" THEN IssueCall(tk1, "path") ELSE IssueCall(tk1, "meta")

\* The caller of resolveTableId once it has returned or thrown `r`:
\* the comment and schema tools (lines 327-329, 340-342, 390-391) use the id in
\* their own call and let the error escape; buildSearchFormula (lines 124-125)
\* fetches the schema, and searchOneTable's .catch(() => "") (line 149) turns
\* the error into the empty formula.
AfterResolve(tk, r) ==
    LET tk1 == [tk EXCEPT !.rres = r, !.req = NoReq] IN
    IF tk.op = "comments"
    THEN IF r.kind = "ok" THEN IssueCall(tk1, "path") ELSE Finish(tk1, r)
    ELSE IF r.kind = "ok" THEN IssueCall(tk1, "meta") ELSE FormulaBuilt(tk1, r)

\* refreshTableCache lines 65-71: up to the await of the remote call.
StartRefresh(tk, pc) == [IssueCall(tk, pc) EXCEPT !.refreshes = @ + 1]

\* A faulty SecondLookup: a miss after the forced refresh refreshes again.
SecondLookup_Retry(tk, c) ==
    LET id2 == Get(c.byName, tk.table) IN
    IF ~Truthy(id2) THEN StartRefresh(tk, "refresh2")
    ELSE AfterResolve(tk, Ok(id2))

\* resolveTableId lines 94-96: the lookup after the forced refresh.
SecondLookup(tk, c) ==
    LET id2 == Get(c.byName, tk.table) IN
    IF ~Truthy(id2) THEN AfterResolve(tk, Failed(NotFound(tk.table)))
    ELSE AfterResolve(tk, Ok(id2))

\* resolveTableId lines 90-98: the first lookup; a miss starts the forced refresh.
FirstLookup(tk, c) ==
    LET id == Get(c.byName, tk.table) IN
    IF ~Truthy(id) THEN StartRefresh(tk, "refresh2")
    ELSE AfterResolve(tk, Ok(id))

\* resolveTableId lines 82-89, from its entry to its first await or its return.
resolveTableId(tk, c, t) ==
    IF IsTableId(tk.table) THEN AfterResolve(tk, Ok(tk.table))
    ELSE IF NeedsRefresh(c, t) THEN StartRefresh(tk, "refresh1")
    ELSE FirstLookup(tk, c)

\* searchOneTable line 149 with buildSearchFormula lines 119-124.
searchOneTable(tk, c, t) ==
    IF Len(tk.fields) > 0
    THEN FormulaBuilt(tk, Ok(buildFormulaFromFields(Query, tk.fields)))
    ELSE resolveTableId(tk, c, t)

\* searchOneTable lines 157-162: the hits of the records of a listing answer.
HitsOf(records, tableNameOrId) ==
    [i \in 1..Len(records) |-> [id |-> records[i].id, table |-> tableNameOrId]]

\* What the service lists for the URL segment `ref`: the records of the table
\* it denotes, none when it denotes no table (a 404 body without "records").
ListedRecords(ref, tables) ==
    LET d == TablesDenoted(ref, tables) IN
    IF d = {} THEN <<>> ELSE RecordsOf(tables[CHOOSE i \in d : \A j \in d : i <= j].id)

\* The table list a call is answered from, and the "tables" the caller reads.
Snapshot(tk) == IF tk.req.st = "read" THEN tk.req.snap ELSE remote
TablesRead(tk, outcome) == IF outcome = "ok" THEN Snapshot(tk) ELSE <<>>

\* (t) => t?.name || t?.id
NameOrId(t) == IF Truthy(t.name) THEN t.name ELSE t.id

RECURSIVE NamesOrIds(_)
\* (list?.tables || []).map((t) => t?.name || t?.id).filter(Boolean)
NamesOrIds(tables) ==
    IF tables = <<>> THEN <<>>
    ELSE (IF Truthy(NameOrId(Head(tables))) THEN <<NameOrId(Head(tables))>> ELSE <<>>)
         \o NamesOrIds(Tail(tables))

(* ------------------------- inputs and initial state ------------------- *)

\* The tables that exist, or come to exist, in the base under Spec.
Universe == {1, 2}

\* Arguments of the tools under Spec: the names of the two tables and the id
\* of the first.
Inputs == {TableNameOf(1), TableNameOf(2), TableIdOf(1)}
\* The table argument of a record tool: "" for none, or a name.
RecordInputs == {<<>>, TableNameOf(1)}
\* The table argument of a single-table search: a name, or "" for none.
SearchInputs == {TableNameOf(1), TableNameOf(2), <<>>}

\* ALLOWED_TABLES: unset, or a seed that names the first table with an id the
\* service no longer uses and a table the service does not report.
SeedMap == Put(Put(EmptyMap, TableNameOf(1), TableIdOf(8)), <<"N", "9">>, TableIdOf(9))

\* The configurations: nothing optional set, or a default table and a seed.
Envs == { [DEFAULT_TABLE |-> <<>>, ALLOWED_TABLES |-> EmptyMap],
          [DEFAULT_TABLE |-> TableNameOf(1), ALLOWED_TABLES |-> SeedMap] }

\* fieldsToSearch: undefined, or one field.
FieldChoices == {<<>>, <<FieldName>>}

IdleFed ==
    [pc |-> "idle", fields |-> <<>>, tables |-> <<>>, i |-> 0, merged |-> <<>>,
     req |-> NoReq, res |-> NoRes]

\* batches: the size of every batch started; sleeps, slept: the delays begun
\* and elapsed; order: the tables of the latest batch in the order their
\* searches completed; returned: per table, the hits its listing call
\* returned; rejected: some searchOneTable promise was rejected; listing: per
\* table, how its listing call was answered ("none" while it has not been);
\* unresolved: the tables for which resolveTableId threw.
NoHist ==
    [batches |-> <<>>, sleeps |-> 0, slept |-> 0, order |-> <<>>,
     returned |-> <<>>, rejected |-> FALSE, listing |-> <<>>, unresolved |-> {}]

\* No call of buildFormulaFromFields is followed on its own.
NoBuild ==
    [q |-> <<>>, fields |-> <<>>, tableId |-> <<>>, picked |-> <<>>,
     text |-> <<>>, done |-> FALSE]

InitCommon ==
    /\ now = 0
    /\ tableCache = NoCache
    /\ task = [t \in TaskIds |-> IdleTask]
    /\ fed = IdleFed
    /\ hist = NoHist

\* budget.faults = -1: no bound on the remote calls that fail.
Init ==
    /\ InitCommon
    /\ budget = [events |-> MaxEvents, ops |-> MaxOps, faults |-> -1]
    /\ remote = <<RemoteTable(1)>>
    /\ env \in Envs
    /\ built = NoBuild

(* ------------------------------- actions ------------------------------ *)

\* A new invocation runs in the first handler slot that is free.
FreeSlot(t) ==
    /\ t \in OpIds /\ task[t].pc \in {"idle", "done"}
    /\ \A u \in OpIds : task[u].pc \in {"idle", "done"} => t[2] <= u[2]

\* The remote call may have the outcome, and what is then left of the budget.
MayBe(outcome) == outcome = "ok" \/ budget.faults /= 0
Charge(outcome) ==
    IF outcome /= "ok" /\ budget.faults > 0
    THEN [budget EXCEPT !.faults = @ - 1] ELSE budget

\* The task awaits a remote call at one of `pcs`, which may have the outcome.
Awaiting(t, pcs, outcome) ==
    /\ task[t].pc \in pcs /\ task[t].req.st /= "none"
    /\ MayBe(outcome)
    /\ budget' = Charge(outcome)

\* A federated search notes the tables for which resolveTableId threw; tk is
\* the search of the table after the step.
NoteResolved(t, tk) ==
    IF t \in SubIds /\ tk.rres.kind = "error"
    THEN [hist EXCEPT !.unresolved = @ \cup {t[2]}]
    ELSE hist

\* airtable-comments-list, airtable-comments-add, schema-add-field: the handler
\* up to its first await.
CallComments(t, table) ==
    /\ FreeSlot(t) /\ budget.ops > 0
    /\ task' = [task EXCEPT ![t] =
                 resolveTableId([IdleTask EXCEPT !.op = "comments", !.table = table],
                                tableCache, now)]
    /\ budget' = [budget EXCEPT !.ops = @ - 1]
    /\ UNCHANGED <<now, remote, env, tableCache, fed, hist, built>>

\* A faulty RecordsCall: the test of tbl is missing.
RecordsCall_NoCheck(tk, tbl) == IssueCall([tk EXCEPT !.table = tbl], "path")

\* The record tools after `tbl = table ?? DEFAULT_TABLE`: without a table they
\* return the message, otherwise they issue their one remote call.
RecordsCall(tk, tbl) ==
    IF ~Truthy(tbl) THEN Finish(tk, Ok(TableRequired))
    ELSE IssueCall([tk EXCEPT !.table = tbl], "path")

\* airtable-list, -get, -create, -update, -delete, -batch and fetch: the
\* handler up to its await; `table` = "" stands for an omitted argument.
CallRecords(t, table) ==
    /\ FreeSlot(t) /\ budget.ops > 0
    /\ task' = [task EXCEPT ![t] =
                 RecordsCall([IdleTask EXCEPT !.op = "records"],
                             IF table = <<>> THEN env.DEFAULT_TABLE ELSE table)]
    /\ budget' = [budget EXCEPT !.ops = @ - 1]
    /\ UNCHANGED <<now, remote, env, tableCache, fed, hist, built>>

\* search with allTables false, lines 467-475: table ?? DEFAULT_TABLE, else the
\* first table of the base; `table` = "" stands for an omitted argument.
CallSearch(t, table, fields) ==
    /\ FreeSlot(t) /\ budget.ops > 0
    /\ LET targetTable == IF table = <<>> THEN env.DEFAULT_TABLE ELSE table
           tk == [IdleTask EXCEPT !.op = "search", !.table = targetTable, !.fields = fields]
       IN  task' = [task EXCEPT ![t] =
                     IF ~Truthy(targetTable) THEN IssueCall(tk, "first")
                     ELSE searchOneTable(tk, tableCache, now)]
    /\ budget' = [budget EXCEPT !.ops = @ - 1]
    /\ UNCHANGED <<now, remote, env, tableCache, fed, hist, built>>

\* search lines 469-473: the table list that picks the first table has answered.
FirstFetched(t, outcome) ==
    /\ Awaiting(t, {"first"}, outcome)
    /\ LET tables == TablesRead(task[t], outcome)
           targetTable == IF tables = <<>> THEN <<>> ELSE NameOrId(tables[1])
           tk == [task[t] EXCEPT !.req = NoReq, !.table = targetTable]
       IN  task' = [task EXCEPT ![t] =
                     IF outcome = "throw" THEN Finish(tk, Failed(RemoteThrow))
                     ELSE IF ~Truthy(targetTable) THEN Finish(tk, Ok(NoTablesNote))
                     ELSE searchOneTable(tk, tableCache, now)]
    /\ UNCHANGED <<now, remote, env, tableCache, fed, hist, built>>

\* A faulty RefreshDone: a table-list call that throws is caught and treated
\* as an answer without a table list.
RefreshDone_CatchThrow(t, outcome) ==
    /\ Awaiting(t, {"refresh1", "refresh2"}, outcome)
    /\ tableCache' =
         [RefreshedCache(env.ALLOWED_TABLES, TablesRead(task[t], outcome), now)
            EXCEPT !.racing = { u \in TaskIds \ {t} :
                                  task[u].pc \in {"refresh1", "refresh2"} },
                   !.raced = t \in tableCache.racing]
    /\ task' = [task EXCEPT ![t] =
                 [@ EXCEPT !.req = NoReq,
                           !.rout = outcome,
                           !.pc = IF @ = "refresh1" THEN "lookup1" ELSE "lookup2",
                           !.fetched2 =
                               IF task[t].pc = "refresh2"
                               THEN Get(Overlay(EmptyMap, TablesRead(task[t], outcome)),
                                        task[t].table)
                               ELSE @]]
    /\ hist' = NoteResolved(t, task'[t])
    /\ UNCHANGED <<now, remote, env, fed, built>>

\* refreshTableCache lines 71-79: the remote call of a refresh has answered.
\* A rejected call rejects the refresh and with it resolveTableId.
RefreshDone(t, outcome) ==
    /\ Awaiting(t, {"refresh1", "refresh2"}, outcome)
    /\ IF outcome = "throw"
       THEN /\ task' = [task EXCEPT ![t] =
                         AfterResolve([@ EXCEPT !.rout = outcome], Failed(RemoteThrow))]
            /\ tableCache' = [tableCache EXCEPT !.racing = @ \ {t}]
       ELSE /\ tableCache' =
                 [RefreshedCache(env.ALLOWED_TABLES, TablesRead(task[t], outcome), now)
                    EXCEPT !.racing = { u \in TaskIds \ {t} :
                                          task[u].pc \in {"refresh1", "refresh2"} },
                           !.raced = t \in tableCache.racing]
            /\ task' = [task EXCEPT ![t] =
                         [@ EXCEPT !.req = NoReq,
                                   !.rout = outcome,
                                   !.pc = IF @ = "refresh1" THEN "lookup1" ELSE "lookup2",
                                   !.fetched2 =
                                       IF task[t].pc = "refresh2"
                                       THEN Get(Overlay(EmptyMap, TablesRead(task[t], outcome)),
                                                task[t].table)
                                       ELSE @]]
    /\ hist' = NoteResolved(t, task'[t])
    /\ UNCHANGED <<now, remote, env, fed, built>>

\* resolveTableId after `await refreshTableCache()`: lines 90-98 or 94-96.
Lookup(t) ==
    /\ task[t].pc \in {"lookup1", "lookup2"}
    /\ task' = [task EXCEPT ![t] =
                 IF @.pc = "lookup1" THEN FirstLookup(@, tableCache)
                 ELSE SecondLookup(@, tableCache)]
    /\ hist' = NoteResolved(t, task'[t])
    /\ UNCHANGED <<now, remote, env, tableCache, fed, budget, built>>

\* buildSearchFormula lines 125-135: the schema has answered; searchOneTable
\* goes on to its listing call (a rejected call gives the empty formula).
SchemaFetched(t, outcome) ==
    /\ Awaiting(t, {"meta"}, outcome)
    /\ task' = [task EXCEPT ![t] =
                 IF outcome = "throw" THEN FormulaBuilt(@, Failed(RemoteThrow))
                 ELSE FormulaBuilt(@, Ok(buildFormulaFromFields(Query,
                          DiscoverFields(@.rres.value, TablesRead(@, outcome)))))]
    /\ UNCHANGED <<now, remote, env, tableCache, fed, hist, built>>

\* A faulty CatchSub: the rejection of a search is not caught.
CatchSub_Rethrow(r) == r

\* search line 456: .catch(() => ({ hits: [] }))
CatchSub(r) == IF r.kind = "error" THEN Ok([hits |-> <<>>]) ELSE r

\* A federated search notes the hits a table's listing call returned, the
\* order in which the searches of a batch complete, and a rejected search.
NoteListed(t, hits, outcome) ==
    IF t \in SubIds
    THEN [hist EXCEPT !.returned[t[2]] = hits,
                      !.order = Append(@, t[2]),
                      !.rejected = @ \/ outcome = "throw",
                      !.listing[t[2]] = outcome]
    ELSE hist

\* searchOneTable lines 155-163: the listing call has answered.  A rejection
\* escapes the single-table search (line 475) and is caught by the federated
\* one (line 456: .catch(() => ({ hits: [] }))).
Listed(t, outcome) ==
    /\ Awaiting(t, {"list"}, outcome)
    /\ LET hits == HitsOf(ListedRecords(task[t].table, TablesRead(task[t], outcome)),
                          task[t].table)
           r == IF outcome = "throw" THEN Failed(RemoteThrow) ELSE Ok([hits |-> hits])
       IN  /\ task' = [task EXCEPT ![t] =
                         Finish([@ EXCEPT !.lout = outcome],
                                IF @.op = "sub" THEN CatchSub(r) ELSE r)]
           /\ hist' = NoteListed(t, IF outcome = "throw" THEN <<>> ELSE hits, outcome)
    /\ UNCHANGED <<now, remote, env, tableCache, fed, built>>

\* The comment and schema tools: their own remote call has answered.
PathDone(t, outcome) ==
    /\ Awaiting(t, {"path"}, outcome)
    /\ task' = [task EXCEPT ![t] =
                 IF outcome = "throw" THEN Finish(@, Failed(RemoteThrow))
                 ELSE Finish(@, Ok([json |-> "body"]))]
    /\ UNCHANGED <<now, remote, env, tableCache, fed, hist, built>>

\* Time passes: exactly the TTL, or a millisecond more.
Tick(d) ==
    /\ budget.events > 0
    /\ \A t \in TaskIds : task[t].pc \notin {"lookup1", "lookup2"}
    /\ now' = now + d
    /\ budget' = [budget EXCEPT !.events = @ - 1]
    /\ UNCHANGED <<remote, env, tableCache, task, fed, hist, built>>

\* The table lists the base can change to: a table created or deleted.
Changes(tables) ==
    { Append(tables, RemoteTable(k)) :
        k \in { u \in Universe : \A i \in 1..Len(tables) : tables[i].id /= TableIdOf(u) } }
    \cup { SubSeq(tables, 1, i - 1) \o SubSeq(tables, i + 1, Len(tables)) : i \in 1..Len(tables) }

\* Somebody changes the base.  Each call in flight has either been read by
\* the service already (it answers from the old list) or not yet.
RemoteChange ==
    /\ budget.events > 0
    /\ \E r2 \in Changes(remote) : remote' = r2
    /\ \E S \in SUBSET { t \in TaskIds : task[t].req.st = "sent" } :
         task' = [t \in TaskIds |->
                    IF t \in S THEN [task[t] EXCEPT !.req = [st |-> "read", snap |-> remote]]
                    ELSE task[t]]
    /\ budget' = [budget EXCEPT !.events = @ - 1]
    /\ UNCHANGED <<now, env, tableCache, fed, hist, built>>

Next ==
    \/ \E t \in OpIds, table \in Inputs : CallComments(t, table)
    \/ \E t \in OpIds, table \in RecordInputs : CallRecords(t, table)
    \/ \E t \in OpIds, table \in SearchInputs, fields \in FieldChoices :
         CallSearch(t, table, fields)
    \/ \E t \in OpIds, o \in Outcomes : FirstFetched(t, o)
    \/ \E t \in OpIds, o \in Outcomes : RefreshDone(t, o)
    \/ \E t \in OpIds : Lookup(t)
    \/ \E t \in OpIds, o \in Outcomes : SchemaFetched(t, o)
    \/ \E t \in OpIds, o \in Outcomes : Listed(t, o)
    \/ \E t \in OpIds, o \in Outcomes : PathDone(t, o)
    \/ \E d \in {TTL, TTL + 1} : Tick(d)
    \/ RemoteChange

Spec == Init /\ [][Next]_vars

(* --------------------- search with allTables = true ------------------- *)

InitFed ==
    /\ InitCommon
    /\ budget = [events |-> 0, ops |-> 0, faults |-> MaxFaults]
    /\ \E n \in 0..MaxTables : remote = [k \in 1..n |-> RemoteTable(k)]
    /\ env = [DEFAULT_TABLE |-> <<>>, ALLOWED_TABLES |-> EmptyMap]
    /\ built = NoBuild

\* tables.slice(i, i + BATCH), as positions of `tables`.
BatchOf(i, n) == { k \in 1..n : i < k /\ k <= i + BATCH }

\* batch.map((t) => searchOneTable({...}).catch(...)): every search of the
\* batch runs to its first await, one after the other, in the same job.
StartBatch(i, tables, fields, t) ==
    [id \in TaskIds |->
       IF id \in SubIds /\ id[2] \in BatchOf(i, Len(tables))
       THEN searchOneTable([IdleTask EXCEPT !.op = "sub", !.table = tables[id[2]],
                                            !.fields = fields], tableCache, t)
       ELSE task[id]]

\* The searches of the batch whose promise is rejected.
Rejected(i, n) ==
    { k \in BatchOf(i, n) : task[SubId(k)].pc = "done" /\ task[SubId(k)].res.kind = "error" }

\* A faulty BatchSettled: the handler goes on when one search has completed.
BatchSettled_Any(i, n) == \E k \in BatchOf(i, n) : task[SubId(k)].pc = "done"

\* await Promise.all(...): every promise of the batch is fulfilled, or one of
\* them is rejected.
BatchSettled(i, n) ==
    \/ \A k \in BatchOf(i, n) : task[SubId(k)].pc = "done"
    \/ Rejected(i, n) /= {}

\* A faulty MergeOrder: the results are merged in the order of completion.
MergeOrder_Completion(i, n, order) == order

\* Promise.all resolves to the results in the order of the batch, whatever
\* the order `order` in which the searches completed.
MergeOrder(i, n, order) == [j \in 1..Cardinality(BatchOf(i, n)) |-> i + j]

\* A faulty SleepsAfter: <= where the code has <.
SleepsAfter_Inclusive(i, n) == i + BATCH <= n

\* line 460: if (i + BATCH < tables.length) await sleep(300)
SleepsAfter(i, n) == i + BATCH < n

\* A faulty Flatten: only the first result of a batch is merged.
Flatten_FirstResult(results) == IF results = <<>> THEN <<>> ELSE Head(results)

RECURSIVE Flatten(_)
\* for (const r of results) merged.push(...(r.hits || []))
Flatten(results) ==
    IF results = <<>> THEN <<>> ELSE Head(results) \o Flatten(Tail(results))

\* search lines 436-438: the handler up to the await of the table list.
FedCall(fields) ==
    /\ fed.pc = "idle"
    /\ fed' = [fed EXCEPT !.pc = "listing", !.req = Sent, !.fields = fields]
    /\ UNCHANGED <<now, remote, env, tableCache, task, hist, budget, built>>

\* search lines 439-458: the table list has answered; the first batch starts,
\* or the loop is skipped when there is no table.
FedListed(outcome) ==
    /\ fed.pc = "listing"
    /\ MayBe(outcome)
    /\ budget' = Charge(outcome)
    /\ LET tables == NamesOrIds(IF outcome = "ok" THEN remote ELSE <<>>) IN
       IF outcome = "throw"
       THEN /\ fed' = [fed EXCEPT !.pc = "done", !.req = NoReq, !.res = Failed(RemoteThrow)]
            /\ UNCHANGED <<task, hist>>
       ELSE IF tables = <<>>
       THEN /\ fed' = [fed EXCEPT !.pc = "done", !.req = NoReq, !.res = Ok([hits |-> <<>>])]
            /\ UNCHANGED <<task, hist>>
       ELSE /\ fed' = [fed EXCEPT !.pc = "batch", !.req = NoReq, !.tables = tables, !.i = 0]
            /\ task' = StartBatch(0, tables, fed.fields, now)
            /\ hist' = [hist EXCEPT !.batches = Append(@, Cardinality(BatchOf(0, Len(tables)))),
                                    !.returned = [k \in 1..Len(tables) |-> <<>>],
                                    !.listing = [k \in 1..Len(tables) |-> "none"]]
    /\ UNCHANGED <<now, remote, env, tableCache, built>>

\* search lines 459-462: the batch is settled; its hits are merged, then the
\* handler sleeps or, after the last batch, returns.
BatchDone ==
    /\ fed.pc = "batch"
    /\ BatchSettled(fed.i, Len(fed.tables))
    /\ LET n == Len(fed.tables)
           ord == MergeOrder(fed.i, n, hist.order)
           results == [j \in 1..Len(ord) |->
                         IF task[SubId(ord[j])].res.kind = "ok"
                         THEN task[SubId(ord[j])].res.value.hits ELSE <<>>]
           merged == fed.merged \o Flatten(results)
       IN  /\ fed' = IF Rejected(fed.i, n) /= {}
                     THEN [fed EXCEPT !.pc = "done", !.res = Failed(RemoteThrow)]
                     ELSE IF SleepsAfter(fed.i, n)
                     THEN [fed EXCEPT !.pc = "sleep", !.merged = merged]
                     ELSE [fed EXCEPT !.pc = "done", !.merged = merged,
                                      !.res = Ok([hits |-> merged])]
           /\ hist' = [hist EXCEPT !.sleeps = IF Rejected(fed.i, n) = {} /\ SleepsAfter(fed.i, n)
                                              THEN @ + 1 ELSE @]
    /\ task' = [id \in TaskIds |->
                  IF id \in SubIds /\ task[id].pc = "done" THEN IdleTask ELSE task[id]]
    /\ UNCHANGED <<now, remote, env, tableCache, budget, built>>

\* The 300 ms have passed: i += BATCH and the next batch starts.
SleepDone ==
    /\ fed.pc = "sleep"
    /\ now' = now + SLEEP_MS
    /\ fed' = [fed EXCEPT !.pc = "batch", !.i = @ + BATCH]
    /\ task' = StartBatch(fed.i + BATCH, fed.tables, fed.fields, now + SLEEP_MS)
    /\ hist' = [hist EXCEPT !.slept = @ + 1, !.order = <<>>,
                            !.batches = Append(@, Cardinality(BatchOf(fed.i + BATCH, Len(fed.tables))))]
    /\ UNCHANGED <<remote, env, tableCache, budget, built>>

NextFed ==
    \/ \E fields \in FieldChoices : FedCall(fields)
    \/ \E o \in Outcomes : FedListed(o)
    \/ \E t \in SubIds, o \in Outcomes : RefreshDone(t, o)
    \/ \E t \in SubIds : Lookup(t)
    \/ \E t \in SubIds, o \in Outcomes : SchemaFetched(t, o)
    \/ \E t \in SubIds, o \in Outcomes : Listed(t, o)
    \/ BatchDone
    \/ SleepDone

SpecFed == InitFed /\ [][NextFed]_vars

\* A pending remote call (the table list, or a call of a search of the
\* batch) is answered: the fetch resolves or rejects.
Returns ==
    \/ \E o \in Outcomes : FedListed(o)
    \/ \E t \in SubIds, o \in Outcomes :
          RefreshDone(t, o) \/ SchemaFetched(t, o) \/ Listed(t, o)

\* A continuation that is ready runs: the lookup after a refresh, or the
\* handler after Promise.all has settled.
Continues == BatchDone \/ \E t \in SubIds : Lookup(t)

\* The timer of sleep(300) fires.
Elapses == SleepDone

\* InitFed for bases of at most MaxLiveTables tables and MaxLiveFaults
\* failing calls.
InitFedLive ==
    /\ InitCommon
    /\ budget = [events |-> 0, ops |-> 0, faults |-> MaxLiveFaults]
    /\ \E n \in 0..MaxLiveTables : remote = [k \in 1..n |-> RemoteTable(k)]
    /\ env = [DEFAULT_TABLE |-> <<>>, ALLOWED_TABLES |-> EmptyMap]
    /\ built = NoBuild

\* SpecFed where every remote call is answered, every ready continuation runs
\* and every delay elapses; nothing obliges a client to call the tool.
SpecFedLive ==
    /\ InitFedLive /\ [][NextFed]_vars
    /\ WF_vars(Returns) /\ WF_vars(Continues) /\ WF_vars(Elapses)

(* ----------------------- buildFormulaFromFields ------------------------ *)

\* The characters of the queries: a letter, a double quote, a backslash.
QueryChars == {"a", "\"", "\\"}

\* The strings over `chars` of at most n characters.
StringsUpTo(chars, n) == UNION { [1..k -> chars] : k \in 0..n }

Queries == StringsUpTo(QueryChars, MaxQueryLen)

\* A field name with a closing brace in it: fieldsToSearch is any array of
\* strings (z.array(z.string())).
FieldBrace == <<"N", "}", "&", "{", "M">>

\* The field lists a caller supplies, the empty one included.
FieldLists == StringsUpTo({FieldName, FieldMail, FieldBrace}, MaxFields)

InitFormula ==
    /\ InitCommon
    /\ budget = [events |-> 0, ops |-> 0, faults |-> 0]
    /\ remote = <<>>
    /\ env = [DEFAULT_TABLE |-> <<>>, ALLOWED_TABLES |-> EmptyMap]
    /\ \E q \in Queries, fields \in FieldLists :
          built = [NoBuild EXCEPT !.q = q, !.fields = fields]

\* buildFormulaFromFields(q, fields) is called and returns.
BuildFormula ==
    /\ ~built.done
    /\ built' = [built EXCEPT !.text = buildFormulaFromFields(built.q, built.fields),
                              !.done = TRUE]
    /\ UNCHANGED <<now, remote, env, tableCache, task, fed, hist, budget>>

NextFormula == BuildFormula

SpecFormula == InitFormula /\ [][NextFormula]_vars

(* ------------------ buildSearchFormula, auto-discovery ------------------ *)

\* Field types in the order the fields of a wide table cycle through them:
\* the five text types, and two that are not.
TypeCycle ==
    <<"singleLineText", "number", "multilineText", "richText", "checkbox",
      "email", "url">>

\* The n fields of a wide table: field j is named f01, f02, ... and has the
\* type the cycle gives it, started at offset o.
WideFields(n, o) ==
    [j \in 1..n |->
        [name |-> <<"f", DigitChar(j \div 10), DigitChar(j % 10)>>,
         type |-> TypeCycle[((j + o) % Len(TypeCycle)) + 1]]]

\* The "tables" arrays a schema answer holds for the resolved table 1: its
\* entry alone, after the entry of another table, missing, or followed by a
\* second entry with the same id.
Schemas(fs) ==
    LET entry == [id |-> TableIdOf(1), name |-> TableNameOf(1), fields |-> fs] IN
    { <<entry>>,
      <<RemoteTable(2), entry>>,
      <<RemoteTable(2)>>,
      <<entry, RemoteTable(1)>> }

InitDiscover ==
    /\ InitCommon
    /\ budget = [events |-> 0, ops |-> 0, faults |-> 0]
    /\ env = [DEFAULT_TABLE |-> <<>>, ALLOWED_TABLES |-> EmptyMap]
    /\ \E n \in 0..MaxSchemaFields, o \in 0..(Len(TypeCycle) - 1) :
          remote \in Schemas(WideFields(n, o))
    /\ built = [NoBuild EXCEPT !.q = Query, !.tableId = TableIdOf(1)]

\* buildSearchFormula lines 127-135, for no explicit fields: the schema answer
\* has been parsed; the fields are picked and the formula is returned.
Discover ==
    /\ ~built.done
    /\ built' = [built EXCEPT
                   !.picked = DiscoverFields(built.tableId, remote),
                   !.text = buildFormulaFromFields(built.q,
                               DiscoverFields(built.tableId, remote)),
                   !.done = TRUE]
    /\ UNCHANGED <<now, remote, env, tableCache, task, fed, hist, budget>>

NextDiscover == Discover

SpecDiscover == InitDiscover /\ [][NextDiscover]_vars

(* ============================== claims ================================ *)

\* The identifier pattern, stated on its own: "tbl", then ten or more
\* characters, every one of them a letter or a digit.
IdShaped(s) ==
    \E n \in 10..Len(s) :
        /\ Len(s) = 3 + n
        /\ s[1] = "t" /\ s[2] = "b" /\ s[3] = "l"
        /\ \A i \in 4..(3 + n) : s[i] \in Alnum

\* In this step task t calls resolveTableId (a tool or a search without
\* explicit fields starts, or the single-table search has picked its table).
EntersResolve(t) ==
    /\ task[t].pc \in {"idle", "done", "first"}
    /\ task'[t] /= task[t]
    /\ task'[t].pc \notin {"idle", "done", "first"}
    /\ task'[t].op /= "records"
    /\ task'[t].fields = <<>>

\* The task awaits the remote call of a refresh.
Refreshing(tk) == tk.pc \in {"refresh1", "refresh2"}

(* ---- C1 ---- *)
\* C1: for every input that matches the identifier pattern, resolveTableId
\* returns the input unchanged in the step that calls it, starts no refresh
\* (so issues no remote call) and leaves tableCache as it was, null included.
C1_IdShapedBypassesCache ==
    [][\A t \in TaskIds :
         (EntersResolve(t) /\ IdShaped(task'[t].table)) =>
            /\ task'[t].rres = Ok(task'[t].table)
            /\ task'[t].refreshes = 0
            /\ ~Refreshing(task'[t])
            /\ tableCache' = tableCache]_vars

\* An identifier-shaped input was resolved to itself while the cache was null.
C1_Witness ==
    \E t \in OpIds :
        /\ IdShaped(task[t].table)
        /\ task[t].rres = Ok(task[t].table)
        /\ task[t].refreshes = 0
        /\ tableCache = NoCache

(* ---- C2 ---- *)
\* C2: one resolveTableId call starts at most two refreshes; NotFound is
\* thrown only after the forced refresh; and when the name is still missing at
\* the lookup after the forced refresh, the call throws NotFound naming its
\* input and starts no further refresh.
C2_AtMostTwoRefreshes ==
    [][\A t \in TaskIds :
         /\ task'[t].refreshes <= 2
         /\ (task'[t].rres.kind = "error" /\ task'[t].rres.err.type = "NotFound")
               => task'[t].refreshes \in {1, 2}
         /\ (task[t].pc = "lookup2" /\ task'[t] /= task[t]
               /\ ~Truthy(Get(tableCache.byName, task[t].table)))
               => /\ task'[t].rres = Failed(NotFound(task[t].table))
                  /\ task'[t].refreshes = task[t].refreshes
                  /\ ~Refreshing(task'[t])]_vars

\* A call on a cold cache refreshed twice and threw NotFound.
C2_Witness ==
    \E t \in OpIds :
        /\ task[t].rres = Failed(NotFound(task[t].table))
        /\ task[t].refreshes = 2

(* ---- C3 ---- *)
\* C3: when the table list the forced refresh of a resolveTableId call fetched
\* contains the name, the call returns that table's id, whatever other calls
\* do to the shared cache meanwhile.
C3_ForcedRefreshFindsTable ==
    \A t \in TaskIds :
        (/\ task[t].rres.kind /= "none"
         /\ ~IdShaped(task[t].table)
         /\ Truthy(task[t].fetched2))
        => task[t].rres = Ok(task[t].fetched2)

(* ---- C4 ---- *)
\* C4: when the name is in the cache at the first lookup of a call, the call
\* returns the mapped id and starts no forced refresh; when moreover the cache
\* exists and is no older than the TTL at the call, no refresh is started at
\* all (zero remote calls).
C4_HitNeedsNoSecondRefresh ==
    [][\A t \in TaskIds :
         /\ (/\ EntersResolve(t) /\ ~IdShaped(task'[t].table)
             /\ tableCache.present /\ now - tableCache.ts <= 300000
             /\ Truthy(Get(tableCache.byName, task'[t].table)))
            => /\ task'[t].rres = Ok(Get(tableCache.byName, task'[t].table))
               /\ task'[t].refreshes = 0
               /\ ~Refreshing(task'[t])
         /\ (/\ task[t].pc = "lookup1" /\ task'[t] /= task[t]
             /\ Truthy(Get(tableCache.byName, task[t].table)))
            => /\ task'[t].rres = Ok(Get(tableCache.byName, task[t].table))
               /\ task'[t].refreshes = task[t].refreshes
               /\ ~Refreshing(task'[t])]_vars

\* A name was resolved without any refresh from a cache exactly TTL old.
C4_Witness ==
    \E t \in OpIds :
        /\ ~IdShaped(task[t].table)
        /\ task[t].rres.kind = "ok"
        /\ task[t].refreshes = 0
        /\ tableCache.present /\ now - tableCache.ts = 300000

(* ---- C10 ---- *)
NotFoundIn(tk) == tk.rres = Failed(NotFound(tk.table))

\* C10 as claimed: whenever resolveTableId throws NotFound inside an
\* operation, the operation fails with that error and does nothing more.
C10_NotFoundFailsEveryOperation ==
    \A t \in OpIds :
        NotFoundIn(task[t]) => (task[t].pc = "done" /\ task[t].res = task[t].rres)

\* C10 as amended: inside the comment and schema tools a NotFound of
\* resolveTableId fails the tool with that error; inside a search it is caught,
\* the listing call goes out without filterByFormula, and the search never
\* reports NotFound.
C10_NotFoundFailsToolsNotSearch ==
    \A t \in OpIds :
        NotFoundIn(task[t]) =>
            /\ task[t].op = "comments" => (task[t].pc = "done" /\ task[t].res = task[t].rres)
            /\ task[t].op = "search" =>
                 /\ task[t].pc \in {"list", "done"}
                 /\ task[t].filter = <<>>
                 /\ task[t].pc = "done" =>
                      (task[t].res.kind = "ok" \/ task[t].res = Failed(RemoteThrow))

\* A comment tool has failed with NotFound and a search has returned hits
\* after its resolveTableId threw NotFound.
C10_Witness ==
    \E t, u \in OpIds :
        /\ task[t].op = "comments" /\ NotFoundIn(task[t])
        /\ task[t].pc = "done" /\ task[t].res = task[t].rres
        /\ task[u].op = "search" /\ NotFoundIn(task[u])
        /\ task[u].pc = "done" /\ task[u].res.kind = "ok"

(* ---- federated search ---- *)

\* The number of tables the federated search visits.
NTables == Len(fed.tables)

\* ceil(NTables / 3)
NBatches == (NTables + 2) \div 3

\* The searches that have started and not completed, and those that await a
\* remote call.
InFlight == { k \in 1..MaxTables : task[SubId(k)].pc \notin {"idle", "done"} }
Calling == { k \in 1..MaxTables : task[SubId(k)].req.st /= "none" }

RECURSIVE ReturnedUpTo(_)
\* The hits the listing calls of tables 1..m returned, table after table.
ReturnedUpTo(m) == IF m = 0 THEN <<>> ELSE ReturnedUpTo(m - 1) \o hist.returned[m]

(* ---- C5 ---- *)
\* C5: a federated search over N tables runs ceil(N/3) batches, all of three
\* tables but the last, and waits once after every batch but the last:
\* ceil(N/3) - 1 delays, none when N = 0, never one after the last batch.
C5_BatchesAndDelays ==
    /\ (fed.pc = "done" /\ fed.res.kind = "ok") =>
          /\ hist.batches = [j \in 1..NBatches |->
                               IF j < NBatches THEN 3 ELSE NTables - 3 * (NBatches - 1)]
          /\ hist.sleeps = (IF NTables = 0 THEN 0 ELSE NBatches - 1)
          /\ hist.slept = hist.sleeps
    /\ fed.pc = "sleep" => (Len(hist.batches) < NBatches /\ hist.sleeps = Len(hist.batches))
    /\ fed.pc = "batch" => hist.sleeps = Len(hist.batches) - 1

\* Seven tables were searched in batches of 3, 3 and 1 with two delays.
C5_Witness ==
    /\ fed.pc = "done" /\ NTables = 7
    /\ hist.batches = <<3, 3, 1>>
    /\ hist.sleeps = 2 /\ hist.slept = 2

(* ---- C6 ---- *)
\* C6: the federated search fails only when its own table listing throws,
\* before any table is searched; once a batch has started, whichever searches
\* fail, it returns normally and its hits contain every hit that the listing
\* call of any table returned.
C6_FailuresContained ==
    /\ fed.res.kind = "error" => hist.batches = <<>>
    /\ (fed.pc = "done" /\ hist.batches /= <<>>) =>
          /\ fed.res.kind = "ok"
          /\ \A k \in 1..NTables : \A j \in 1..Len(hist.returned[k]) :
                \E m \in 1..Len(fed.res.value.hits) :
                    fed.res.value.hits[m] = hist.returned[k][j]

\* The search of table 4 of 7 was rejected; the call returned the hits of
\* tables 1-3 and 5-7.
C6_Witness ==
    /\ fed.pc = "done" /\ fed.res.kind = "ok" /\ NTables = 7
    /\ hist.rejected /\ hist.returned[4] = <<>>
    /\ \A k \in (1..7) \ {4} :
          /\ hist.returned[k] /= <<>>
          /\ \A j \in 1..Len(hist.returned[k]) :
                \E m \in 1..Len(fed.res.value.hits) :
                    fed.res.value.hits[m] = hist.returned[k][j]

(* ---- C7 ---- *)
\* C7: a search of a table has started (or is settled and not yet merged) only
\* while the handler awaits the batch of that table, after every delay before
\* that batch has elapsed; the searches of all earlier batches are over.
C7_BatchesStrictlySequential ==
    \A k \in 1..MaxTables :
        task[SubId(k)].pc /= "idle" =>
            /\ fed.pc = "batch"
            /\ fed.i < k /\ k <= fed.i + 3
            /\ hist.slept * 3 = fed.i
            /\ \A j \in 1..fed.i : task[SubId(j)].pc = "idle"

\* The search of table 4 is in flight after the first batch was merged and
\* the first delay has elapsed.
C7_Witness ==
    /\ 4 \in InFlight
    /\ hist.slept = 1
    /\ fed.merged /= <<>>

(* ---- C8 ---- *)
\* C8: at most three searches of one federated search are in flight, and at
\* most three remote calls of it are outstanding (each search in flight awaits
\* at most one).
C8_AtMostThreeInFlight ==
    /\ Cardinality(InFlight) <= 3
    /\ Calling \subseteq InFlight
    /\ Cardinality(Calling) + (IF fed.pc = "listing" THEN 1 ELSE 0) <= 3

\* Three searches await a remote call at once.
C8_Witness == Cardinality(Calling) = 3

(* ---- C9 ---- *)
\* C9: the merged hits are the hits returned for table 1, then those for
\* table 2, and so on in the order of the table list, each table's hits in
\* the order its listing call returned them, whatever the order in which the
\* searches of a batch completed.
C9_MergedInTableOrder ==
    /\ (fed.pc = "done" /\ fed.res.kind = "ok") => fed.res.value.hits = ReturnedUpTo(NTables)
    /\ fed.pc = "batch" => fed.merged = ReturnedUpTo(fed.i)
    /\ fed.pc = "sleep" => fed.merged = ReturnedUpTo(fed.i + 3)

\* Six tables all returned hits, the searches of the last batch completed in
\* the order 6, 5, 4, and the call has returned.
C9_Witness ==
    /\ fed.pc = "done" /\ fed.res.kind = "ok" /\ NTables = 6
    /\ hist.order = <<6, 5, 4>>
    /\ \A k \in 1..6 : Len(hist.returned[k]) = 2

(* ---- C11 ---- *)
\* The hits of the result that carry the name of table k of the table list.
Contribution(k) ==
    SelectSeq(fed.res.value.hits, LAMBDA h : h.table = fed.tables[k])

\* What an unfiltered listing of table k returns, as hits.
AllHitsOf(k) == HitsOf(ListedRecords(fed.tables[k], remote), fed.tables[k])

\* C11 as claimed: in a finished federated search a table whose listing call
\* did not answer with records, or whose name resolveTableId failed to resolve,
\* contributes no hit.
C11_FailedTableContributesNothing ==
    (fed.pc = "done" /\ fed.res.kind = "ok") =>
        \A k \in 1..NTables :
            (hist.listing[k] /= "ok" \/ k \in hist.unresolved) => Contribution(k) = <<>>

\* C11 as amended: a federated search that has started a batch returns
\* normally; the listing call of every table was made, also of a table whose
\* name resolveTableId failed to resolve; a table whose listing call was
\* rejected or answered with an error body contributes no hit; and a table
\* whose listing call answered with records contributes those records, also
\* when its name could not be resolved.
C11_FailedListingContributesNothing ==
    (fed.pc = "done" /\ hist.batches /= <<>>) =>
        /\ fed.res.kind = "ok"
        /\ \A k \in 1..NTables :
              /\ hist.listing[k] /= "none"
              /\ hist.listing[k] /= "ok" => Contribution(k) = <<>>
              /\ hist.listing[k] = "ok" => Contribution(k) = AllHitsOf(k)

\* A finished federated search in which the listing call of one table was
\* rejected and that table contributes nothing, while a table whose name
\* could not be resolved contributes the records of its unfiltered listing.
C11_Witness ==
    /\ fed.pc = "done" /\ fed.res.kind = "ok"
    /\ \E j, k \in 1..NTables :
          /\ hist.listing[j] = "throw" /\ Contribution(j) = <<>>
          /\ k \in hist.unresolved /\ hist.listing[k] = "ok"
          /\ Contribution(k) /= <<>>

(* ---- C12 ---- *)
\* C12: in the step in which buildSearchFormula fails (resolveTableId threw,
\* or the schema call was rejected) searchOneTable issues its listing call
\* without filterByFormula; from then on the search changes only by that call
\* being read by the service or answered, so it issues exactly one listing
\* call, whose answer ends the search.
C12_FormulaFailureDegrades ==
    [][\A t \in OpIds :
         /\ (task'[t].fres.kind = "error" /\ task[t].fres.kind /= "error") =>
                /\ task[t].pc \in {"idle", "done", "first", "refresh1", "refresh2",
                                   "lookup2", "meta"}
                /\ task'[t].pc = "list"
                /\ task'[t].req = Sent
                /\ task'[t].filter = <<>>
         /\ (task[t].fres.kind = "error" /\ task[t].pc /= "done" /\ task'[t] /= task[t]) =>
                /\ task[t].pc = "list"
                /\ task'[t].filter = <<>>
                /\ \/ task'[t].pc = "list" /\ task'[t].req.st = "read" /\ task[t].req.st = "sent"
                   \/ task'[t].pc = "done" /\ task'[t].req = NoReq]_vars

\* Two single-table searches have returned hits from an unfiltered listing:
\* one after resolveTableId threw, one after the schema call was rejected.
C12_Witness ==
    \E t, u \in OpIds :
        /\ task[t].op = "search" /\ task[t].pc = "done" /\ task[t].res.kind = "ok"
        /\ task[t].rres.kind = "error" /\ task[t].fres = task[t].rres
        /\ task[t].filter = <<>> /\ task[t].res.value.hits /= <<>>
        /\ task[u].op = "search" /\ task[u].pc = "done" /\ task[u].res.kind = "ok"
        /\ task[u].rres.kind = "ok" /\ task[u].fres = Failed(RemoteThrow)
        /\ task[u].filter = <<>> /\ task[u].res.value.hits /= <<>>

(* ---- the formula as the formula language reads it ---- *)

RECURSIVE Scan(_, _)
\* The tokens of a formula text: a string literal ("str", with its unescaped
\* reading: a backslash makes the next character part of the literal, the
\* first double quote without one ends it), a field reference ("field", the
\* characters between { and the first }), any other character ("ch"), and
\* "open" for a literal or reference that the text does not close.
Scan(s, st) ==
    IF s = <<>> THEN st
    ELSE LET c == Head(s) IN
         Scan(Tail(s),
           CASE st.mode = "code" ->
                  IF c = "\"" THEN [st EXCEPT !.mode = "str", !.cur = <<>>]
                  ELSE IF c = "{" THEN [st EXCEPT !.mode = "field", !.cur = <<>>]
                  ELSE [st EXCEPT !.out = Append(@, [kind |-> "ch", v |-> <<c>>])]
             [] st.mode = "str" ->
                  IF c = "\\" THEN [st EXCEPT !.mode = "esc"]
                  ELSE IF c = "\""
                  THEN [mode |-> "code", cur |-> <<>>,
                        out |-> Append(st.out, [kind |-> "str", v |-> st.cur])]
                  ELSE [st EXCEPT !.cur = Append(@, c)]
             [] st.mode = "esc" -> [st EXCEPT !.mode = "str", !.cur = Append(@, c)]
             [] OTHER ->
                  IF c = "}"
                  THEN [mode |-> "code", cur |-> <<>>,
                        out |-> Append(st.out, [kind |-> "field", v |-> st.cur])]
                  ELSE [st EXCEPT !.cur = Append(@, c)])

RECURSIVE ScanPieces(_, _)
\* Scan, applied to a long text piece after piece, the state after one piece
\* being computed before the next is scanned.
ScanPieces(s, st) ==
    IF Len(s) <= 32 THEN Scan(s, st)
    ELSE LET st2 == Scan(SubSeq(s, 1, 32), st) IN
         IF st2.mode = "none" THEN st2
         ELSE ScanPieces(SubSeq(s, 33, Len(s)), st2)

Tokens(text) ==
    LET st == ScanPieces(text, [mode |-> "code", cur |-> <<>>, out |-> <<>>])
    IN  IF st.mode = "code" THEN st.out
        ELSE Append(st.out, [kind |-> "open", v |-> st.cur])

\* The values of the tokens of one kind, in their order.
ValuesOf(toks, kind) ==
    LET sel == SelectSeq(toks, LAMBDA t : t.kind = kind)
    IN  [i \in 1..Len(sel) |-> sel[i].v]

\* The string literals and the field references a formula text holds.
Literals(text) == ValuesOf(Tokens(text), "str")
FieldRefs(text) == ValuesOf(Tokens(text), "field")

RECURSIVE Shape(_)
\* The formula text with "$" for every literal and "#" for every reference.
Shape(toks) ==
    IF toks = <<>> THEN <<>>
    ELSE IF Len(toks) = 1
    THEN CASE toks[1].kind = "ch" -> toks[1].v
           [] toks[1].kind = "str" -> <<"$">>
           [] toks[1].kind = "field" -> <<"#">>
           [] OTHER -> <<"?">>
    ELSE Shape(SubSeq(toks, 1, Len(toks) \div 2))
         \o Shape(SubSeq(toks, Len(toks) \div 2 + 1, Len(toks)))

\* SEARCH($, # & $): one substring-match predicate.
PredicateShape == <<"S", "E", "A", "R", "C", "H", "(", "$", ",", " ", "#", " ", "&", " ", "$", ")">>

RECURSIVE Predicates(_)
\* OR( ... ) around n predicates, separated by commas, as a shape.
Predicates(n) ==
    IF n = 1 THEN PredicateShape ELSE PredicateShape \o <<",">> \o Predicates(n - 1)

OrShape(n) == <<"O", "R", "(">> \o Predicates(n) \o <<")">>

(* ---- C13 ---- *)
\* C13 as claimed (its part on the emitted formula): for every non-empty
\* explicit field list the formula is an OR of exactly one SEARCH predicate
\* per supplied field, and the fields it references are the supplied fields,
\* in the supplied order, and no other.
C13_OnePredicatePerSuppliedField ==
    (built.done /\ built.fields /= <<>>) =>
        /\ Shape(Tokens(built.text)) = OrShape(Len(built.fields))
        /\ FieldRefs(built.text) = built.fields

(* ---- C14 ---- *)
\* C14: for every query and every field list, each predicate of the emitted
\* formula holds two string literals, the first of which reads, unescaped, as
\* the original query (the second is the empty literal of & ""): no double
\* quote or backslash of the query ends or alters the literal.
C14_QueryStaysInsideLiteral ==
    built.done =>
        /\ Len(Literals(built.text)) = 2 * Len(built.fields)
        /\ \A i \in 1..Len(built.fields) :
              /\ Literals(built.text)[2 * i - 1] = built.q
              /\ Literals(built.text)[2 * i] = <<>>
        /\ \A i \in 1..Len(Tokens(built.text)) : Tokens(built.text)[i].kind /= "open"

\* A formula was built for two fields from the query \"a (a backslash before
\* a double quote, then a letter).
C14_Witness ==
    /\ built.done /\ Len(built.fields) = 2
    /\ built.q = <<"\\", "\"", "a">>
    /\ Len(built.text) > 0

(* ---- C15 ---- *)
\* The table with id `id` is missing from the table list, or has no field of
\* a text type.
NoTextField(id, tables) ==
    \A i \in 1..Len(tables) :
        tables[i].id = id =>
            \A j \in 1..Len(tables[i].fields) :
                tables[i].fields[j].type \notin
                    {"singleLineText", "multilineText", "richText", "email", "url"}

\* C15: when a search without explicit fields gets a schema answer in which
\* the resolved table is missing or has no text field, buildSearchFormula
\* returns the empty formula; and whenever the formula is empty the search
\* issues its listing call without filterByFormula instead of failing.
C15_NoFieldMeansNoFilter ==
    [][\A t \in OpIds :
         /\ (task[t].pc = "meta" /\ task'[t].pc = "list" /\ task'[t].fres.kind = "ok"
             /\ NoTextField(task[t].rres.value, Snapshot(task[t]))) =>
                task'[t].fres = Ok(<<>>)
         /\ (task'[t].fres = Ok(<<>>) /\ task[t].fres /= Ok(<<>>)) =>
                /\ task'[t].pc = "list"
                /\ task'[t].req = Sent
                /\ task'[t].filter = <<>>]_vars

\* A search of the table without text fields, resolved and found in the
\* schema, has returned the records of an unfiltered listing.
C15_Witness ==
    \E t \in OpIds :
        /\ task[t].op = "search" /\ task[t].pc = "done"
        /\ task[t].fields = <<>>
        /\ task[t].rres = Ok(TableIdOf(2))
        /\ task[t].fres = Ok(<<>>) /\ task[t].filter = <<>>
        /\ task[t].res.kind = "ok" /\ task[t].res.value.hits /= <<>>

(* ---- C16 ---- *)
\* The table list reports `name`, with an identifier.
Reports(tables, name) ==
    \E i \in 1..Len(tables) : tables[i].name = name /\ tables[i].id /= <<>>

\* C16: the cache a refresh has written holds, for every name the table list
\* it received reports with an identifier, that identifier, also when
\* ALLOWED_TABLES gives the name another one; and it holds every pair of
\* ALLOWED_TABLES whose name the list does not report.
C16_RemoteWinsSeedKept ==
    tableCache.present =>
        /\ \A i \in 1..Len(tableCache.from) :
              (tableCache.from[i].name /= <<>> /\ tableCache.from[i].id /= <<>>) =>
                  /\ tableCache.from[i].name \in DOMAIN tableCache.byName
                  /\ tableCache.byName[tableCache.from[i].name] = tableCache.from[i].id
        /\ \A name \in DOMAIN env.ALLOWED_TABLES :
              ~Reports(tableCache.from, name) =>
                  /\ name \in DOMAIN tableCache.byName
                  /\ tableCache.byName[name] = env.ALLOWED_TABLES[name]

\* A refresh received a list that reports N1, which ALLOWED_TABLES maps to
\* another identifier, and not N9, which only ALLOWED_TABLES names.
C16_Witness ==
    /\ tableCache.present
    /\ Reports(tableCache.from, <<"N", "1">>)
    /\ <<"N", "1">> \in DOMAIN env.ALLOWED_TABLES
    /\ env.ALLOWED_TABLES[<<"N", "1">>] /= tableCache.byName[<<"N", "1">>]
    /\ <<"N", "9">> \in DOMAIN tableCache.byName
    /\ ~Reports(tableCache.from, <<"N", "9">>)

(* ---- C17 ---- *)
\* In this step a tool is invoked and runs in slot t.
Invoked(t) == FreeSlot(t) /\ budget'.ops = budget.ops - 1

\* C17 as claimed: a record tool or a single-table search invoked with no
\* table while no default table is configured returns the "table is required"
\* message at once and issues no remote call.
C17_TableRequiredEverywhere ==
    [][\A t \in OpIds :
         (Invoked(t) /\ task'[t].op \in {"records", "search"}
          /\ task'[t].table = <<>> /\ env.DEFAULT_TABLE = <<>>) =>
             /\ task'[t].pc = "done"
             /\ task'[t].res = Ok(TableRequired)
             /\ task'[t].req = NoReq]_vars

\* C17 as amended: with no table and no default table the record tools
\* (list, get, create, update, delete, batch, fetch) return the message at
\* once, without a remote call; the single-table search instead asks the
\* service for the table list, and never returns the message.
C17_TableRequiredButSearch ==
    [][\A t \in OpIds :
         /\ (Invoked(t) /\ task'[t].op = "records"
             /\ task'[t].table = <<>> /\ env.DEFAULT_TABLE = <<>>) =>
                /\ task'[t].pc = "done"
                /\ task'[t].res = Ok(TableRequired)
                /\ task'[t].req = NoReq
                /\ remote' = remote /\ tableCache' = tableCache
         /\ (Invoked(t) /\ task'[t].op = "search"
             /\ task'[t].table = <<>> /\ env.DEFAULT_TABLE = <<>>) =>
                /\ task'[t].pc = "first"
                /\ task'[t].req = Sent
         /\ task'[t].op = "search" => task'[t].res /= Ok(TableRequired)]_vars

\* With no default table, a record tool called without a table has returned
\* the message, and a search called without a table awaits the table list
\* from which it takes the first table.
C17_Witness ==
    /\ env.DEFAULT_TABLE = <<>>
    /\ \E t, u \in OpIds :
          /\ task[t].op = "records" /\ task[t].pc = "done"
          /\ task[t].table = <<>> /\ task[t].res = Ok(TableRequired)
          /\ task[u].op = "search" /\ task[u].pc = "first"
          /\ task[u].table = <<>> /\ task[u].req.st /= "none"

(* ---- C18 ---- *)
\* C18 as claimed: a single-table search whose listing call was answered with
\* an error body does not return normally with an empty hit list.
C18_ListingErrorPropagates ==
    \A t \in OpIds :
        (task[t].op = "search" /\ task[t].pc = "done" /\ task[t].lout = "errbody") =>
            ~(task[t].res.kind = "ok" /\ task[t].res.value.hits = <<>>)

(* ---- the cache as a snapshot ---- *)

\* In this step the refresh of call t writes the cache.
WritesCache(t) ==
    /\ task[t].pc \in {"refresh1", "refresh2"}
    /\ task'[t].pc \in {"lookup1", "lookup2"}

\* The identifier the table list gives `name`.
ReportedId(tables, name) ==
    LET i == CHOOSE i \in 1..Len(tables) : tables[i].name = name /\ tables[i].id /= <<>>
    IN  tables[i].id

\* `map` is ALLOWED_TABLES overlaid with the entries of the one table list
\* `tables`: it holds the reported names with their identifiers, the other
\* names of ALLOWED_TABLES with theirs, and nothing else.
IsSnapshotOf(map, tables) ==
    \A name \in ((DOMAIN map) \cup (DOMAIN env.ALLOWED_TABLES)
                 \cup { tables[i].name : i \in 1..Len(tables) }) \ {<<>>} :
        IF Reports(tables, name)
        THEN name \in DOMAIN map /\ map[name] = ReportedId(tables, name)
        ELSE IF name \in DOMAIN env.ALLOWED_TABLES
        THEN name \in DOMAIN map /\ map[name] = env.ALLOWED_TABLES[name]
        ELSE name \notin DOMAIN map

\* The name-identifier pairs a table list reports.
EntriesOf(tables) ==
    { <<tables[i].name, tables[i].id>> :
        i \in { j \in 1..Len(tables) : tables[j].name /= <<>> /\ tables[j].id /= <<>> } }

(* ---- C19 ---- *)
\* C19 as claimed: when the refresh that writes the cache was in flight
\* together with the refresh that wrote it before, the map it writes is the map
\* it replaces: the result is the same whichever of the two writes lands last.
C19_SameMapWhicheverLandsLast ==
    [][\A t \in TaskIds :
         (WritesCache(t) /\ t \in tableCache.racing) =>
            tableCache'.byName = tableCache.byName]_vars

\* C19 as amended: of two refreshes in flight together the one that lands
\* last replaces the cache by the snapshot of the table list it received
\* itself (none for an error body), stamped with the time of its write; the
\* map is the one it replaces when both received the same entries.
C19_LastWriteReplaces ==
    [][\A t \in TaskIds :
         (WritesCache(t) /\ t \in tableCache.racing) =>
            /\ tableCache'.from \in {Snapshot(task[t]), <<>>}
            /\ IsSnapshotOf(tableCache'.byName, tableCache'.from)
            /\ tableCache'.ts = now
            /\ tableCache'.raced
            /\ EntriesOf(tableCache'.from) = EntriesOf(tableCache.from) =>
                  tableCache'.byName = tableCache.byName]_vars

\* Two refreshes were in flight together and both have written the cache, the
\* second after the base had changed.
C19_Witness ==
    /\ tableCache.present /\ tableCache.raced
    /\ budget.events = 0
    /\ tableCache.from /= remote

(* ---- C20 ---- *)
\* C20: the cache is null, or its map is ALLOWED_TABLES overlaid with the
\* entries of one table list, the one its writer received; only the
\* completion of a refresh changes the cache, and it writes the map taken from
\* the answer to its own call together with the time of the write.
C20_CacheIsOneSnapshot ==
    /\ [](IF tableCache.present
          THEN IsSnapshotOf(tableCache.byName, tableCache.from)
          ELSE tableCache = NoCache)
    /\ [][(tableCache'.byName /= tableCache.byName \/ tableCache'.ts /= tableCache.ts
           \/ tableCache'.present /= tableCache.present) =>
             \E t \in TaskIds :
                /\ WritesCache(t)
                /\ tableCache'.present
                /\ tableCache'.ts = now
                /\ tableCache'.from \in {Snapshot(task[t]), <<>>}
                /\ IsSnapshotOf(tableCache'.byName, tableCache'.from)]_vars

\* A second refresh has replaced a cache written from another table list:
\* the base has changed since the call before it was answered.
C20_Witness ==
    /\ tableCache.present
    /\ tableCache.from /= <<>>
    /\ Len(tableCache.from) = 2
    /\ \E t \in OpIds : task[t].refreshes = 2 /\ task[t].pc = "lookup2"

(* ---- C21 ---- *)
\* The table-list call of task t's refresh is answered in this step.
Answered(t) == Refreshing(task[t]) /\ task'[t].pc /= task[t].pc

\* C21 as claimed: a refresh whose table-list call is answered with an error
\* body, one that carries no table list, leaves a cache as it was: its
\* timestamp does not advance and its entries are not replaced, so the
\* timestamp stays that of the last refresh that obtained a table list.
C21_ErrorBodyLeavesCache ==
    [][\A t \in TaskIds :
         (Answered(t) /\ task'[t].rout = "errbody" /\ tableCache.present) =>
            /\ tableCache'.present
            /\ tableCache'.ts = tableCache.ts
            /\ tableCache'.byName = tableCache.byName]_vars

(* ---- C22 ---- *)
\* resolveTableId returns an identifier to task t for a name input in this
\* step: at its entry (lines 86-91) or after one of its refreshes.
ReturnsIdForName(t) ==
    /\ EntersResolve(t) \/ task[t].pc \in {"lookup1", "lookup2"}
    /\ task'[t] /= task[t]
    /\ ~IdShaped(task'[t].table)
    /\ task'[t].rres.kind = "ok"

\* C22 as claimed: an identifier returned for a name is read from a cache that
\* is present and at most TTL old at the lookup, and the entries of every
\* snapshot are those of the remote table list as it is at the snapshot's
\* timestamp, the time of its write.
C22_ReadFromCurrentSnapshot ==
    /\ [][\A t \in TaskIds :
            ReturnsIdForName(t) =>
               /\ tableCache.present
               /\ now - tableCache.ts <= 300000
               /\ task'[t].rres.value = Get(tableCache.byName, task'[t].table)]_vars
    /\ [][\A t \in TaskIds :
            WritesCache(t) => IsSnapshotOf(tableCache'.byName, remote)]_vars

\* C22 as amended: an identifier returned for a name is the entry of that
\* name in a cache that is present and at most TTL old at the lookup (an
\* absent or older cache is refreshed before it is read); the map is
\* ALLOWED_TABLES overlaid with the table list its writer received, which is
\* the list the service read while the call was in flight (none for an error
\* body) and was stamped on receipt, not later than the timestamp says.
C22_ReadFromFreshSnapshot ==
    [][\A t \in TaskIds :
         /\ ReturnsIdForName(t) =>
               /\ tableCache.present
               /\ tableCache.ts <= now /\ now - tableCache.ts <= 300000
               /\ task'[t].rres.value = Get(tableCache.byName, task'[t].table)
               /\ IsSnapshotOf(tableCache.byName, tableCache.from)
         /\ (/\ EntersResolve(t) /\ ~IdShaped(task'[t].table)
             /\ (~tableCache.present \/ now - tableCache.ts > 300000))
               => task'[t].pc = "refresh1"
         /\ WritesCache(t) =>
               /\ tableCache'.ts = now
               /\ tableCache'.from =
                     (IF task'[t].rout = "ok" THEN Snapshot(task[t]) ELSE <<>>)]_vars

\* A name has been resolved, after a refresh, from a snapshot that is within
\* its TTL and reports a table that the base had lost when the snapshot was
\* written or has lost since.
C22_Witness ==
    \E t \in OpIds :
        /\ ~IdShaped(task[t].table)
        /\ task[t].rres.kind = "ok"
        /\ task[t].refreshes = 1
        /\ tableCache.present /\ now - tableCache.ts <= 300000
        /\ task[t].rres.value = Get(tableCache.byName, task[t].table)
        /\ Reports(tableCache.from, task[t].table)
        /\ ~Reports(remote, task[t].table)

(* ---- C23 ---- *)
\* The positions, in a field list, of the fields of a text type.
TextPositions(fs) ==
    { j \in 1..Len(fs) :
        fs[j].type \in {"singleLineText", "multilineText", "richText", "email", "url"} }

\* `picked` holds the names of the first `cap` text fields of fs, in the
\* order of fs, and nothing else.
FirstTextFields(picked, fs, cap) ==
    LET P == TextPositions(fs) IN
    /\ Len(picked) = (IF Cardinality(P) < cap THEN Cardinality(P) ELSE cap)
    /\ \A k \in 1..Len(picked) :
          \E j \in P : /\ Cardinality({ i \in P : i < j }) = k - 1
                       /\ picked[k] = fs[j].name

\* C23: without explicit fields the fields searched are the text fields
\* (singleLineText, multilineText, richText, email, url) of the schema entry
\* whose id is the resolved id, in the schema's order, cut to the first 12
\* (none when no entry has the id); the formula has one predicate for each of
\* them, in that order, and never more than 12.
C23_DiscoversFirstTwelveTextFields ==
    built.done =>
        LET E == { i \in 1..Len(remote) : remote[i].id = built.tableId } IN
        /\ IF E = {} THEN built.picked = <<>>
           ELSE \E i \in E : /\ \A j \in E : i <= j
                             /\ FirstTextFields(built.picked, remote[i].fields, 12)
        /\ FieldRefs(built.text) = built.picked
        /\ Len(FieldRefs(built.text)) <= 12
        /\ IF built.picked = <<>> THEN built.text = <<>>
           ELSE Shape(Tokens(built.text)) = OrShape(Len(built.picked))

\* A formula was built for a table with more than 12 text fields, the second
\* field of which is not a text field: it has 12 predicates.
C23_Witness ==
    /\ built.done
    /\ Len(remote) = 2 /\ remote[2].id = built.tableId
    /\ Cardinality(TextPositions(remote[2].fields)) > 12
    /\ 2 \notin TextPositions(remote[2].fields)
    /\ Len(built.picked) = 12
    /\ Len(FieldRefs(built.text)) = 12

(* ---- C24 ---- *)
\* C24: when every remote call is answered and every delay elapses, a
\* federated search ends; once it has its table list it returns, whatever
\* calls of its table searches failed, a result that holds what every table's
\* search returned, after the batches of all its tables, and it returns it
\* once: the result of a finished search does not change.
C24_FederatedSearchReturns ==
    /\ (fed.pc = "listing") ~>
          (/\ fed.pc = "done"
           /\ fed.res.kind = "error" => hist.batches = <<>>
           /\ fed.res.kind = "ok" =>
                 /\ Len(hist.batches) = NBatches
                 /\ fed.res.value.hits = ReturnedUpTo(NTables))
    /\ [][fed.pc = "done" => fed' = fed]_vars

\* A search over four tables has returned after two batches and a delay,
\* with calls of its table searches failed and hits from other tables.
C24_Witness ==
    /\ fed.pc = "done" /\ fed.res.kind = "ok" /\ NTables = 4
    /\ Len(hist.batches) = 2 /\ hist.slept = 1
    /\ budget.faults = 0
    /\ fed.res.value.hits /= <<>>
    /\ fed.res.value.hits = ReturnedUpTo(4)

(* ---- C25 ---- *)
\* C25: when the table-list call of a refresh throws, the cache keeps its
\* value (absent, or the same timestamp and the same map), and the
\* resolveTableId that started the refresh fails with the error of the call,
\* returning neither an identifier nor a NotFound; a tool hands that error
\* to its caller.
C25_ThrowLeavesCacheAndFails ==
    [][\A t \in TaskIds :
         (Answered(t) /\ task'[t].rout = "throw") =>
            /\ tableCache'.present = tableCache.present
            /\ tableCache'.ts = tableCache.ts
            /\ tableCache'.byName = tableCache.byName
            /\ task'[t].rres = Failed(RemoteThrow)
            /\ ~Refreshing(task'[t]) /\ task'[t].pc \notin {"lookup1", "lookup2"}
            /\ task'[t].op = "comments" =>
                  task'[t].pc = "done" /\ task'[t].res = Failed(RemoteThrow)]_vars

\* The forced refresh of a tool call has thrown: the call has failed with
\* that error and the cache is the one its first refresh wrote from a table
\* list.
C25_Witness ==
    \E t \in OpIds :
        /\ task[t].op = "comments" /\ task[t].pc = "done"
        /\ task[t].refreshes = 2 /\ task[t].rout = "throw"
        /\ task[t].res = Failed(RemoteThrow)
        /\ tableCache.present /\ tableCache.from /= <<>>
        /\ tableCache.byName /= env.ALLOWED_TABLES

====
